---- MODULE Spec2Model ----
(***************************************************************************)
(* A model of the ReEDS parser (src/src/r2x_reeds/parser.py): one build of *)
(* a system by ReEDSParser, from input validation through the six          *)
(* component builders and the three time-series passes to post-processing  *)
(* (Spec), further builds on the same parser (SpecRebuild), the expansion  *)
(* routines (SpecExpansion), and the upgrade step and version detector of  *)
(* src/src/r2x_reeds/upgrader (SpecUpgrade).                               *)
(*                                                                         *)
(* Strings are sequences of one-character strings, so that the names the   *)
(* parser formats ("<from>||<to>", "<region>_load", ...) are modelled by   *)
(* concatenation and not as opaque identities.  None and the empty string  *)
(* are both the empty sequence: the parser only ever tests them with       *)
(* `not x`.  An optional number is <<>> (None) or <<n>>.                   *)
(***************************************************************************)
EXTENDS Integers, Sequences, FiniteSets, TLC

VARIABLES
    config,          \* ReEDSConfig: solve_years, weather_years
    skip_validation, \* ReEDSParser(..., skip_validation=...)
    data_store,      \* the dataset names `in` the DataStore
    files,           \* the dataset files that exist: name |-> most rows it holds
    hierarchy_csv,   \* the rows the hierarchy file of the data folder may hold
    defaults_json,   \* what config.load_defaults() returns
    unique_names,    \* whether the host repository rejects a duplicate name
    ip,              \* position in BuildSystem of the next method to run
    status,          \* "running" | "done" | "failed"
    error,           \* the message of the exception that ended the build
    trace,           \* the methods entered so far, in order
    hierarchy,       \* the hierarchy frame as read from the DataStore
    load_data,       \* the load frame as read from the DataStore
    df,              \* the frame the builder or pass that ran last iterated
    system,          \* the components, attributes and series of the system
    region_cache,    \* self._region_cache
    generator_cache, \* self._generator_cache
    hourly_time_index, \* self.hourly_time_index: <<first year, number of hours>>
    routine,         \* the expansion routine that was called, "" before the call
    argument,        \* the values the expansion routine was called with
    result,          \* what the routine returned or raised
    builds,          \* the number of the build: build_system calls so far
    folder_path      \* the files of the folder an upgrade works on

vars == <<config, skip_validation, data_store, files, hierarchy_csv, defaults_json,
          unique_names, ip, status, error, trace, hierarchy, load_data, df,
          system, region_cache, generator_cache, hourly_time_index,
          routine, argument, result, builds, folder_path>>

----------------------------------------------------------------------------
(* Bounds of the model.                                                    *)

\* The largest number of rows of an input frame.
MaxRows == 2

----------------------------------------------------------------------------
(* Strings.                                                                *)

None == <<>>

Truthy(x) == x # <<>>

\* str.startswith at position i (1-based) of s.
MatchAt(s, old, i) ==
    /\ i + Len(old) - 1 <= Len(s)
    /\ \A k \in 1..Len(old) : s[i + k - 1] = old[k]

RECURSIVE ReplaceFrom(_, _, _, _)
ReplaceFrom(s, old, new, i) ==
    IF i > Len(s) THEN <<>>
    ELSE IF MatchAt(s, old, i)
         THEN new \o ReplaceFrom(s, old, new, i + Len(old))
         ELSE <<s[i]>> \o ReplaceFrom(s, old, new, i + 1)

\* Python's s.replace(old, new) for a non-empty old: every non-overlapping
\* occurrence, found left to right.
Replace(s, old, new) == ReplaceFrom(s, old, new, 1)

\* The index of the first occurrence of sep in s at or after i, 0 if none.
RECURSIVE FindFrom(_, _, _)
FindFrom(s, sep, i) ==
    IF i + Len(sep) - 1 > Len(s) THEN 0
    ELSE IF MatchAt(s, sep, i) THEN i
    ELSE FindFrom(s, sep, i + 1)

\* Python's s.split(sep): the list of the parts between the occurrences of sep.
RECURSIVE SplitFrom(_, _, _)
SplitFrom(s, sep, i) ==
    LET j == FindFrom(s, sep, i)
    IN  IF j = 0 THEN <<SubSeq(s, i, Len(s))>>
        ELSE <<SubSeq(s, i, j - 1)>> \o SplitFrom(s, sep, j + Len(sep))

Split(s, sep) == SplitFrom(s, sep, 1)

\* str.upper() on the letters the inputs use.
UpperChar(c) ==
    CASE c = "c" -> "C" [] c = "o" -> "O" [] c = "n" -> "N" [] c = "x" -> "X"
      [] OTHER -> c

Upper(s) == [i \in 1..Len(s) |-> UpperChar(s[i])]

Range(s) == {s[i] : i \in 1..Len(s)}

Max(a, b) == IF a >= b THEN a ELSE b

RECURSIVE SeqMax(_)
SeqMax(s) == IF Len(s) = 1 THEN s[1] ELSE Max(s[1], SeqMax(Tail(s)))

\* The sequences over S of length at most n.
SeqsUpTo(S, n) == UNION {[1..k -> S] : k \in 0..n}

----------------------------------------------------------------------------
(* A Python dict: insertion-ordered keys, assignment to an existing key    *)
(* keeps the key's position and replaces its value.                        *)

DictKeys(d) == [i \in 1..Len(d) |-> d[i].k]

DictHas(d, key) == \E i \in 1..Len(d) : d[i].k = key

\* dict.get(key): the value, or 0 (no component: indices start at 1).
DictGet(d, key) ==
    IF DictHas(d, key)
    THEN d[CHOOSE i \in 1..Len(d) : d[i].k = key].v
    ELSE 0

DictSet(d, key, val) ==
    IF DictHas(d, key)
    THEN [i \in 1..Len(d) |-> IF d[i].k = key THEN [k |-> key, v |-> val] ELSE d[i]]
    ELSE Append(d, [k |-> key, v |-> val])

----------------------------------------------------------------------------
(* Input data.  Every frame is a sequence of rows; a row is a record whose *)
(* absent or null columns are None.                                        *)

P == <<"p">>
Q == <<"q">>
PP == <<"p", "|", "|", "p">>
W == <<"w">>
E == <<"e">>

HRow(region_id, r, transmission_region, state) ==
    [region_id |-> region_id, region |-> None, r |-> r, star_r |-> None,
     region_type |-> None, state |-> state, st |-> None,
     transmission_region |-> transmission_region]

\* Rows of hierarchy.csv: region p, region q (its identifier under the
\* column r), a region whose identifier holds the characters "||", a second
\* row for region p, and a row without identifier.
HierarchyRows ==
    { HRow(P, None, W, <<"C", "A">>),
      HRow(None, Q, W, <<"O", "R">>),
      HRow(PP, None, E, <<"W", "A">>),
      HRow(P, None, E, <<"N", "V">>),
      HRow(None, None, W, None) }

\* modeledyears.csv and the years of hmap_allyrs.csv.
modeledyears_csv == {2030, 2040}
hmap_allyrs_csv == {2012}

\* ReEDSConfig.validate_solve_years and validate_weather_years: whether the
\* years pass (they raise otherwise, and no configuration exists).
validate_solve_years(years) ==
    \A i \in 1..Len(years) : ~(years[i] < 2020 \/ years[i] > 2100)

validate_weather_years(years) ==
    \A i \in 1..Len(years) : ~(years[i] < 2007 \/ years[i] > 2013)

\* The configurations the model builds with: those ReEDSConfig accepts of
\* four candidates.
Configs ==
    { c \in { [solve_years |-> <<2030>>, weather_years |-> <<2012>>],
              [solve_years |-> <<2050>>, weather_years |-> <<2012>>],
              [solve_years |-> <<2030>>, weather_years |-> <<2007>>],
              [solve_years |-> <<2030>>, weather_years |-> <<2050>>] } :
        validate_solve_years(c.solve_years)
        /\ validate_weather_years(c.weather_years) }

\* str(year) for the years of the model.
YearStr(y) ==
    CASE y = 2030 -> "2030" [] y = 2040 -> "2040" [] y = 2050 -> "2050"
      [] y = 2007 -> "2007" [] y = 2012 -> "2012"

X == <<"x">>
G == <<"g">>
V == <<"v">>
AC == <<"A", "C">>
DC == <<"D", "C">>

CRow(technology, vintage, region, capacity_mw, year) ==
    [technology |-> technology, vintage |-> vintage, region |-> region,
     capacity_mw |-> capacity_mw, year |-> year]

\* Rows of the online-capacity frame: region x is in no hierarchy.
CapacityRows ==
    { CRow(W, None, P, <<5>>, 2030),
      CRow(G, V, Q, <<0>>, 2030),
      CRow(W, None, X, <<5>>, 2030),
      CRow(G, None, P, <<-1>>, 2030),
      CRow(None, None, P, <<5>>, 2030),
      CRow(W, V, P, <<3>>, 2030),
      CRow(W, V, P, <<3>>, 2050) }

TRow(from_region, r, to_region, trtype, capacity_mw, value) ==
    [from_region |-> from_region, r |-> r, to_region |-> to_region,
     rr |-> None, trtype |-> trtype, capacity_mw |-> capacity_mw,
     value |-> value]

\* Rows of the transmission-capacity frame.
TransmissionRows ==
    { TRow(P, None, Q, None, <<5>>, None),
      TRow(Q, None, P, DC, <<0>>, <<7>>),
      TRow(P, None, PP, None, <<5>>, None),
      TRow(PP, None, P, DC, <<4>>, None),
      TRow(None, P, None, None, <<5>>, None),
      TRow(X, None, P, None, <<5>>, None),
      TRow(Q, None, P, None, <<-2>>, None) }

\* Load profiles (their length stands for the hours of the frame).
LoadProfiles == {<<3, 5>>, <<-2, -1>>}

----------------------------------------------------------------------------
(* The system (the host repository) and the component models.              *)

EmptySystem ==
    [regions |-> <<>>, generators |-> <<>>, interfaces |-> <<>>,
     lines |-> <<>>, demands |-> <<>>, reserves |-> <<>>,
     emissions |-> <<>>, time_series |-> <<>>,
     data_format_version |-> None, description |-> None]

\* ReEDSParser.__init__ hands skip_validation on to BaseParser always set.
ParserSkipsValidation_Always(skip) == TRUE

\* ReEDSParser.__init__ hands skip_validation on to BaseParser.
ParserSkipsValidation(skip) == skip

\* The field constraints of the component models: a magnitude is >= 0.
NonNegative(x) == x = None \/ x[1] >= 0

\* BaseParser.create_component: the component is validated against its
\* model unless the parser was built with skip_validation=True.
ValidationFails(skip, magnitude) == ~skip /\ ~NonNegative(magnitude)

\* system.add_component: a host that enforces unique names rejects a
\* component whose name is that of a stored component of the same type.
Rejected(unique, stored, name) ==
    unique /\ \E i \in 1..Len(stored) : stored[i].name = name

ValidationError == <<"ValidationError">>
DuplicateName == <<"DuplicateName">>

----------------------------------------------------------------------------
(* The build: the methods BaseParser.build_system runs, in order.          *)

\* The generators built before the regions.
ComponentBuilders_GeneratorsFirst ==
    <<"_build_generators", "_build_regions", "_build_transmission",
      "_build_loads", "_build_reserves", "_build_emissions">>

\* The builders build_system_components calls, in order.
ComponentBuilders ==
    <<"_build_regions", "_build_generators", "_build_transmission",
      "_build_loads", "_build_reserves", "_build_emissions">>

\* The passes build_time_series calls, in order.
TimeSeriesPasses ==
    <<"_attach_load_profiles", "_attach_renewable_profiles",
      "_attach_reserve_profiles">>

\* The stage hooks build_system calls, in order.
Stages ==
    <<"validate_inputs", "build_system_components", "build_time_series",
      "post_process_system">>

\* build_system_components validating the inputs a second time.
StageBody_Revalidates(stage) ==
    CASE stage = "build_system_components" ->
             <<"validate_inputs">> \o ComponentBuilders
      [] stage = "build_time_series" -> TimeSeriesPasses
      [] OTHER -> <<>>

StageBody(stage) ==
    CASE stage = "build_system_components" -> ComponentBuilders
      [] stage = "build_time_series" -> TimeSeriesPasses
      [] OTHER -> <<>>

RECURSIVE Flatten(_)
Flatten(stages) ==
    IF stages = <<>> THEN <<>>
    ELSE <<Head(stages)>> \o StageBody(Head(stages)) \o Flatten(Tail(stages))

\* Every method of one build, in the order it is entered.
BuildSystem == Flatten(Stages)

Current == IF ip <= Len(BuildSystem) THEN BuildSystem[ip] ELSE "return"

At(method) == status = "running" /\ Current = method

\* The method returns: the build goes on with the next method.
Return ==
    /\ ip' = ip + 1
    /\ status' = IF ip + 1 > Len(BuildSystem) THEN "done" ELSE "running"
    /\ trace' = Append(trace, Current)

\* The method raises: the exception leaves build_system.
Raise(msg) ==
    /\ ip' = ip
    /\ status' = "failed"
    /\ error' = msg
    /\ trace' = Append(trace, Current)

\* The call of an expansion routine: no builder touches it.
Expansion == <<routine, argument, result>>

\* The number of the build and the folder of the upgrader: no method of a
\* build touches them.
Session == <<builds, folder_path>>

NoResult == [raised |-> FALSE, data |-> <<>>]

Inputs ==
    <<config, skip_validation, data_store, files, hierarchy_csv, defaults_json,
      unique_names>>

----------------------------------------------------------------------------
(* The state after ReEDSParser(config, data_store, skip_validation=...).   *)

SPIN == <<"S", "P", "I", "N", "N", "I", "N", "G">>
FLEX == <<"F", "L", "E", "X", "I", "B", "I", "L", "I", "T", "Y">>

\* config.load_defaults(): {} when defaults.json does not exist.
NoDefaults ==
    [default_reserve_types |-> <<>>, reserve_duration |-> <<>>,
     reserve_time_frame |-> <<>>, reserve_vors |-> <<>>,
     tech_categories |-> <<>>, excluded_techs |-> <<>>]

WIND == <<"w", "i", "n", "d">>
SOLAR == <<"s", "o", "l", "a", "r">>

\* The defaults a defaults.json may hold: the three reserve tables are dicts
\* from reserve type to number, tech_categories is a dict from category to
\* the technologies of the category, excluded_techs a list of technologies.
DefaultsFiles ==
    { NoDefaults,
      [default_reserve_types |-> <<SPIN>>,
       reserve_duration |-> <<[k |-> SPIN, v |-> <<1>>]>>,
       reserve_time_frame |-> <<[k |-> SPIN, v |-> <<2>>]>>,
       reserve_vors |-> <<[k |-> SPIN, v |-> <<3>>]>>,
       tech_categories |-> <<[k |-> WIND, v |-> <<W>>]>>,
       excluded_techs |-> <<>>],
      [default_reserve_types |-> <<SPIN, FLEX>>,
       reserve_duration |-> <<[k |-> SPIN, v |-> <<1>>]>>,
       reserve_time_frame |-> <<>>,
       reserve_vors |-> <<[k |-> FLEX, v |-> <<3>>]>>,
       tech_categories |-> <<>>,
       excluded_techs |-> <<G>>] }

\* The defaults config.load_defaults() returns in a data folder.
LoadDefaults(folder) ==
    IF "defaults" \in DOMAIN folder THEN DefaultsFiles ELSE {NoDefaults}

\* A run folder of the upgrader: whether the directory inputs_case/rep
\* exists, the contents of hmap_allyrs.csv at its old and at its new location
\* (None where there is no file) and meta.csv.
Folder(rep, old_location, new_location, meta_csv) ==
    [rep |-> rep, old_location |-> old_location,
     new_location |-> new_location, meta_csv |-> meta_csv]

NoFile == [exists |-> FALSE, rows |-> <<>>]
File(rows) == [exists |-> TRUE, rows |-> rows]

\* No upgrade is under way.
NoFolder == Folder(FALSE, None, None, NoFile)

NoFrame == [present |-> FALSE, rows |-> <<>>]
Frame(rows) == [present |-> TRUE, rows |-> rows]

\* The data folders of the model: the files that exist, each with the
\* largest number of rows it holds.  The hierarchy always exists; a folder
\* holds at most the files one builder and the builders it depends on read.
Folders ==
    { [hierarchy |-> MaxRows],
      [hierarchy |-> MaxRows, online_capacity |-> MaxRows],
      [hierarchy |-> MaxRows, transmission_capacity |-> MaxRows],
      [hierarchy |-> MaxRows, load_data |-> MaxRows],
      [hierarchy |-> 1, online_capacity |-> 1, emission_rates |-> 1],
      [hierarchy |-> 1, online_capacity |-> 2, renewable_cf |-> 1],
      [hierarchy |-> MaxRows, defaults |-> 1] }

InitWith(configs, skips, stores, folders, hierarchies, uniques) ==
    /\ config \in configs
    /\ skip_validation \in skips
    /\ data_store \in stores
    /\ files \in folders
    /\ hierarchy_csv \in hierarchies
    /\ defaults_json \in LoadDefaults(files)
    /\ unique_names \in uniques
    /\ builds = 1
    /\ folder_path = NoFolder
    /\ ip = 1
    /\ status = "running"
    /\ error = None
    /\ trace = <<>>
    /\ hierarchy = <<>>
    /\ load_data = NoFrame
    /\ df = <<>>
    /\ system = EmptySystem
    /\ region_cache = <<>>
    /\ generator_cache = <<>>
    /\ hourly_time_index = <<>>

Init ==
    /\ InitWith(Configs, BOOLEAN, SUBSET {"hierarchy", "modeledyears"},
                Folders, {HierarchyRows}, BOOLEAN)
    /\ routine = ""
    /\ argument = <<>>
    /\ result = NoResult

----------------------------------------------------------------------------
(* validate_inputs                                                         *)

\* Only the hierarchy is required.
MissingFiles_HierarchyOnly(store) ==
    SelectSeq(<<"hierarchy">>, LAMBDA f : f \notin store)

MissingFiles(store) ==
    SelectSeq(<<"hierarchy", "modeledyears">>, LAMBDA f : f \notin store)

RequiredFileMsg(file_name) ==
    <<"Required file '", file_name, "' not found in DataStore">>

\* The exception validate_inputs raises, None when it returns.
ValidateError(store, cfg) ==
    IF MissingFiles(store) # <<>>
    THEN RequiredFileMsg(MissingFiles(store)[1])
    ELSE None

validate_inputs ==
    /\ At("validate_inputs")
    /\ IF ValidateError(data_store, config) # None
       THEN Raise(ValidateError(data_store, config))
       ELSE Return /\ UNCHANGED error
    /\ UNCHANGED <<Inputs, Expansion, Session, hierarchy, load_data, df, system, region_cache,
                   generator_cache, hourly_time_index>>

----------------------------------------------------------------------------
(* build_system_components: the time indices and the empty caches; the     *)
(* builders follow as the next methods of BuildSystem.                     *)

IsLeap(year) == year % 4 = 0 /\ (year % 100 # 0 \/ year % 400 = 0)

\* np.arange(year, year + 1, dtype="datetime64[h]"): the hours of the year.
HoursOf(year) == IF IsLeap(year) THEN 8784 ELSE 8760

\* The caches are kept as the build found them.
InitialCaches_Kept(rcache, gcache) ==
    [region |-> rcache, generator |-> gcache]

\* self._region_cache = {}; self._generator_cache = {}
InitialCaches(rcache, gcache) ==
    [region |-> <<>>, generator |-> <<>>]

build_system_components ==
    /\ At("build_system_components")
    /\ hourly_time_index' =
           <<config.weather_years[1], HoursOf(config.weather_years[1])>>
    /\ region_cache' = InitialCaches(region_cache, generator_cache).region
    /\ generator_cache' =
           InitialCaches(region_cache, generator_cache).generator
    /\ Return
    /\ UNCHANGED <<Inputs, Expansion, Session, error, hierarchy, load_data, df, system>>

----------------------------------------------------------------------------
(* _build_regions                                                          *)

FirstTruthy(xs) ==
    IF \E i \in 1..Len(xs) : Truthy(xs[i])
    THEN xs[CHOOSE i \in 1..Len(xs) :
                Truthy(xs[i]) /\ \A j \in 1..(i - 1) : ~Truthy(xs[j])]
    ELSE None

RegionNameOf(row) ==
    FirstTruthy(<<row.region_id, row.region, row.r, row.star_r>>)

\* One row of the loop; st is [system, cache, error].
RegionRow(row, st, unique) ==
    LET region_name == RegionNameOf(row)
        region == [name |-> region_name,
                   category |-> row.region_type,
                   state |-> FirstTruthy(<<row.state, row.st>>),
                   max_active_power |-> None]
    IN  IF ~Truthy(region_name) THEN st
        ELSE IF Rejected(unique, st.system.regions, region_name)
        THEN [st EXCEPT !.error = DuplicateName]
        ELSE [st EXCEPT
                 !.system.regions = Append(@, region),
                 !.cache = DictSet(@, region_name, Len(st.system.regions) + 1)]

RECURSIVE RegionRows(_, _, _, _)
RegionRows(rows, i, st, unique) ==
    IF i > Len(rows) \/ st.error # None THEN st
    ELSE RegionRows(rows, i + 1, RegionRow(rows[i], st, unique), unique)

_build_regions ==
    /\ At("_build_regions")
    /\ \E hierarchy_data \in SeqsUpTo(hierarchy_csv, files["hierarchy"]) :
         LET st == RegionRows(hierarchy_data, 1,
                              [system |-> system, cache |-> region_cache,
                               error |-> None], unique_names)
         IN  /\ hierarchy' = hierarchy_data
             /\ df' = hierarchy_data
             /\ system' = st.system
             /\ region_cache' = st.cache
             /\ IF st.error # None THEN Raise(st.error)
                ELSE Return /\ UNCHANGED error
    /\ UNCHANGED <<Inputs, Expansion, Session, load_data, generator_cache, hourly_time_index>>

----------------------------------------------------------------------------
(* Reading an optional dataset: None (NoFrame) when its file does not      *)
(* exist, else one of the frames the file may hold.                        *)

Exists(name) == name \in DOMAIN files

Reads(name, frames) ==
    IF Exists(name) THEN {Frame(f) : f \in frames} ELSE {NoFrame}

\* The frames a file of rows may hold.
Frames(name, rows) ==
    IF Exists(name) THEN SeqsUpTo(rows, files[name]) ELSE {}

----------------------------------------------------------------------------
(* _build_generators                                                       *)

GenName(tech, vintage, region_name) ==
    IF Truthy(vintage)
    THEN tech \o <<"_">> \o vintage \o <<"_">> \o region_name
    ELSE tech \o <<"_">> \o region_name

BIOMASS == <<"b", "i", "o", "m", "a", "s", "s">>

\* Rows of the fuel-technology map and of the biofuel price frame.
FuelRows ==
    { [technology |-> G, fuel_type |-> BIOMASS],
      [technology |-> W, fuel_type |-> WIND] }

BiofuelRows == { [region |-> P, fuel_price |-> <<3>>] }

TypeError == <<"TypeError">>

\* bfuel_price_output: the biofuel prices, given the fuel type biomass and
\* joined with the fuel-technology map on the fuel type.
BiofuelPriceOutput(biofuel_price, generator_fuel) ==
    SelectSeq(generator_fuel, LAMBDA fuel : fuel.fuel_type = BIOMASS /\ biofuel_price # <<>>)

\* The exception the biofuel prices make the builder raise, None when they
\* do not: joining them with a fuel-technology map that is None, or
\* concatenating a non-empty join to a fuel price frame that is None.
BiofuelError(generator_fuel, fuel_price_input, biofuel_price) ==
    IF ~biofuel_price.present THEN None
    ELSE IF ~generator_fuel.present THEN TypeError
    ELSE IF BiofuelPriceOutput(biofuel_price.rows, generator_fuel.rows) # <<>>
            /\ ~fuel_price_input
    THEN TypeError
    ELSE None

\* df.join(generator_fuel, how="left", on=["technology"]): the fuel type of
\* the technology, None without a row of the map.
FuelTypeOf(tech, generator_fuel) ==
    LET fuels == SelectSeq(generator_fuel, LAMBDA fuel : fuel.technology = tech)
    IN  IF fuels = <<>> THEN None ELSE fuels[1].fuel_type

\* next((cat for cat, techs in category_map.items() if tech in techs), None);
\* the column is not added when the category map is empty.
CategoryOf(tech, category_map) ==
    LET cats == SelectSeq(category_map, LAMBDA c : tech \in Range(c.v))
    IN  IF cats = <<>> THEN None ELSE cats[1].k

\* float(row.get("capacity_mw", 0.0))
CapacityOf(row) == IF row.capacity_mw = None THEN <<0>> ELSE row.capacity_mw

\* A row of an unknown region refers to the first region built.
GeneratorRegion_FirstRegion(row, rcache) ==
    IF ~Truthy(row.technology) \/ ~Truthy(row.region) THEN 0
    ELSE IF DictHas(rcache, row.region) THEN DictGet(rcache, row.region)
    ELSE 1

\* The region the generator of a row refers to: 0 when the row is skipped.
GeneratorRegion(row, rcache) ==
    IF ~Truthy(row.technology) \/ ~Truthy(row.region) THEN 0
    ELSE DictGet(rcache, row.region)

\* One row of the loop; st is [system, cache, error].
GeneratorRow(row, st, rcache, generator_fuel, category_map, skip, unique) ==
    LET tech == row.technology
        vintage == row.vintage
        region_name == row.region
        region_obj == GeneratorRegion(row, rcache)
        gen_name == GenName(tech, vintage, region_name)
        generator == [name |-> gen_name,
                      category |-> CategoryOf(tech, category_map),
                      region |-> region_obj,
                      technology |-> tech, capacity |-> CapacityOf(row),
                      fuel_type |-> FuelTypeOf(tech, generator_fuel),
                      vintage |-> vintage]
    IN  IF region_obj = 0 THEN st
        ELSE IF ValidationFails(skip, CapacityOf(row))
        THEN [st EXCEPT !.error = ValidationError]
        ELSE IF Rejected(unique, st.system.generators, gen_name)
        THEN [st EXCEPT !.error = DuplicateName]
        ELSE [st EXCEPT
                 !.system.generators = Append(@, generator),
                 !.cache = DictSet(@, gen_name, Len(st.system.generators) + 1)]

RECURSIVE GeneratorRows(_, _, _, _, _, _, _, _)
GeneratorRows(rows, i, st, rcache, generator_fuel, category_map, skip, unique) ==
    IF i > Len(rows) \/ st.error # None THEN st
    ELSE GeneratorRows(rows, i + 1,
                       GeneratorRow(rows[i], st, rcache, generator_fuel,
                                    category_map, skip, unique),
                       rcache, generator_fuel, category_map, skip, unique)

\* capacity_data.filter(pl.col("year") == solve_year)
FilterYear(rows, solve_year) ==
    SelectSeq(rows, LAMBDA row : row.year = solve_year)

_build_generators ==
    /\ At("_build_generators")
    /\ \E capacity_data \in Reads("online_capacity",
                                  Frames("online_capacity", CapacityRows)),
          generator_fuel \in Reads("fuel_tech_map",
                                   Frames("fuel_tech_map", FuelRows)),
          biofuel_price \in Reads("biofuel_price",
                                  Frames("biofuel_price", BiofuelRows)) :
         LET rows == FilterYear(capacity_data.rows, config.solve_years[1])
             raised == IF ~capacity_data.present THEN None
                       ELSE BiofuelError(generator_fuel, Exists("fuel_price"),
                                         biofuel_price)
             st == IF raised # None
                   THEN [system |-> system, cache |-> generator_cache,
                         error |-> raised]
                   ELSE GeneratorRows(rows, 1,
                                      [system |-> system,
                                       cache |-> generator_cache,
                                       error |-> None],
                                      region_cache, generator_fuel.rows,
                                      defaults_json.tech_categories,
                                      ParserSkipsValidation(skip_validation),
                                      unique_names)
         IN  /\ df' = rows
             /\ system' = st.system
             /\ generator_cache' = st.cache
             /\ IF st.error # None THEN Raise(st.error)
                ELSE Return /\ UNCHANGED error
    /\ UNCHANGED <<Inputs, Expansion, Session, hierarchy, load_data, region_cache,
                   hourly_time_index>>

----------------------------------------------------------------------------
(* _build_transmission                                                     *)

InterfaceName(from_region_name, to_region_name) ==
    from_region_name \o <<"|", "|">> \o to_region_name

FromName(row) == FirstTruthy(<<row.from_region, row.r>>)
ToName(row) == FirstTruthy(<<row.to_region, row.rr>>)

\* Only the from-region is looked up.
Resolvable_FromOnly(row, rcache) ==
    /\ Truthy(FromName(row))
    /\ DictGet(rcache, FromName(row)) # 0

\* Whether the loop builds a line for the row: both names are given and
\* both are keys of the region cache.
Resolvable(row, rcache) ==
    /\ Truthy(FromName(row)) /\ Truthy(ToName(row))
    /\ DictGet(rcache, FromName(row)) # 0
    /\ DictGet(rcache, ToName(row)) # 0

\* row.get("trtype", "AC")
LineType(row) == IF row.trtype = None THEN AC ELSE row.trtype

\* row.get("capacity_mw") or row.get("value", 0.0)
LineCapacity(row) ==
    IF row.capacity_mw # None /\ row.capacity_mw # <<0>> THEN row.capacity_mw
    ELSE IF row.value = None THEN <<0>> ELSE row.value

\* One row of the loop; st is [system, cache, error], cache being the
\* method's local interface_cache.
TransmissionRow(row, st, rcache, unique) ==
    LET interface_name == InterfaceName(FromName(row), ToName(row))
        known == DictHas(st.cache, interface_name)
        new_interface == [name |-> interface_name,
                          from_region |-> DictGet(rcache, FromName(row)),
                          to_region |-> DictGet(rcache, ToName(row))]
        interface == IF known THEN DictGet(st.cache, interface_name)
                     ELSE Len(st.system.interfaces) + 1
        line_name == interface_name \o <<"_">> \o LineType(row)
        line == [name |-> line_name, interface |-> interface,
                 max_active_power |-> [from_to |-> LineCapacity(row),
                                       to_from |-> LineCapacity(row)],
                 line_type |-> LineType(row)]
        st1 == IF known THEN st
               ELSE [st EXCEPT
                        !.system.interfaces = Append(@, new_interface),
                        !.cache = DictSet(@, interface_name, interface)]
    IN  IF ~Resolvable(row, rcache) THEN st
        ELSE IF ~known /\ Rejected(unique, st.system.interfaces, interface_name)
        THEN [st EXCEPT !.error = DuplicateName]
        ELSE IF ~NonNegative(LineCapacity(row))
        THEN [st1 EXCEPT !.error = ValidationError]
        ELSE IF Rejected(unique, st1.system.lines, line_name)
        THEN [st1 EXCEPT !.error = DuplicateName]
        ELSE [st1 EXCEPT !.system.lines = Append(@, line)]

RECURSIVE TransmissionRows_(_, _, _, _, _)
TransmissionRows_(rows, i, st, rcache, unique) ==
    IF i > Len(rows) \/ st.error # None THEN st
    ELSE TransmissionRows_(rows, i + 1,
                           TransmissionRow(rows[i], st, rcache, unique),
                           rcache, unique)

_build_transmission ==
    /\ At("_build_transmission")
    /\ \E trancap \in Reads("transmission_capacity",
                            Frames("transmission_capacity", TransmissionRows)) :
         LET st == TransmissionRows_(trancap.rows, 1,
                                     [system |-> system, cache |-> <<>>,
                                      error |-> None],
                                     region_cache, unique_names)
         IN  /\ df' = trancap.rows
             /\ system' = st.system
             /\ IF st.error # None THEN Raise(st.error)
                ELSE Return /\ UNCHANGED error
    /\ UNCHANGED <<Inputs, Expansion, Session, hierarchy, load_data, region_cache,
                   generator_cache, hourly_time_index>>

----------------------------------------------------------------------------
(* _build_loads                                                            *)

LOAD == <<"_", "l", "o", "a", "d">>

\* A load frame: one profile per column, the columns being identifiers of
\* the hierarchy file.
LoadFrames ==
    UNION {[cols -> LoadProfiles] :
              cols \in SUBSET ({RegionNameOf(row) : row \in hierarchy_csv}
                               \ {None})}

\* df.is_empty(): no column, or no row.
IsEmptyFrame(cols) ==
    DOMAIN cols = {} \/ \A c \in DOMAIN cols : cols[c] = <<>>

\* One region of the loop over the region cache; st is [system, error].
LoadRegion(region_name, region_obj, cols, st, skip, unique) ==
    LET peak_load == <<SeqMax(cols[region_name])>>
        demand == [name |-> region_name \o LOAD, region |-> region_obj,
                   max_active_power |-> peak_load]
    IN  IF region_name \notin DOMAIN cols THEN st
        ELSE IF ValidationFails(skip, peak_load)
        THEN [st EXCEPT !.error = ValidationError]
        ELSE IF Rejected(unique, st.system.demands, demand.name)
        THEN [st EXCEPT !.error = DuplicateName]
        ELSE [st EXCEPT !.system.demands = Append(@, demand)]

\* The loop ends after the first region of the cache.
LoadRegions_FirstOnly(rcache, i, cols, st, skip, unique) ==
    IF i > Len(rcache) \/ i > 1 \/ st.error # None THEN st
    ELSE LoadRegion(rcache[i].k, rcache[i].v, cols, st, skip, unique)

RECURSIVE LoadRegions(_, _, _, _, _, _)
LoadRegions(rcache, i, cols, st, skip, unique) ==
    IF i > Len(rcache) \/ st.error # None THEN st
    ELSE LoadRegions(rcache, i + 1, cols,
                     LoadRegion(rcache[i].k, rcache[i].v, cols, st, skip, unique),
                     skip, unique)

_build_loads ==
    /\ At("_build_loads")
    /\ \E data \in Reads("load_data", LoadFrames) :
         LET st == IF ~data.present \/ IsEmptyFrame(data.rows)
                   THEN [system |-> system, error |-> None]
                   ELSE LoadRegions(region_cache, 1, data.rows,
                                    [system |-> system, error |-> None],
                                    ParserSkipsValidation(skip_validation),
                                    unique_names)
         IN  /\ load_data' = data
             /\ df' = <<>>
             /\ system' = st.system
             /\ IF st.error # None THEN Raise(st.error)
                ELSE Return /\ UNCHANGED error
    /\ UNCHANGED <<Inputs, Expansion, Session, hierarchy, region_cache, generator_cache,
                   hourly_time_index>>

----------------------------------------------------------------------------
(* _build_reserves                                                         *)

\* dict.get(key) on a table of numbers: None when the key is absent.
Lookup(table, key) == IF DictHas(table, key) THEN DictGet(table, key) ELSE None

\* The column as it is, a value once per row.
UniqueLists_EveryRow(rows) ==
    {[i \in 1..Len(rows) |-> rows[i].transmission_region]}

\* The orders df["transmission_region"].unique().to_list() may return: the
\* distinct values of the column, in any order.
UniqueLists(rows) ==
    LET values == {rows[i].transmission_region : i \in 1..Len(rows)}
    IN  {order \in [1..Cardinality(values) -> values] :
            \A i, j \in 1..Cardinality(values) : i # j => order[i] # order[j]}

ReserveName(region_name, reserve_type) ==
    region_name \o <<"_">> \o reserve_type

\* One (transmission region, reserve type) of the loops; st is [system, error].
ReservePair(region_name, reserve_type, defaults, st, unique) ==
    LET reserve == [name |-> ReserveName(region_name, reserve_type),
                    reserve_type |-> reserve_type,
                    duration |-> Lookup(defaults.reserve_duration, reserve_type),
                    time_frame |-> Lookup(defaults.reserve_time_frame, reserve_type),
                    vors |-> Lookup(defaults.reserve_vors, reserve_type)]
    IN  IF Rejected(unique, st.system.reserves, reserve.name)
        THEN [st EXCEPT !.error = DuplicateName]
        ELSE [st EXCEPT !.system.reserves = Append(@, reserve)]

\* The two nested loops, as one loop over the pairs in row-major order.
RECURSIVE ReservePairs(_, _, _, _, _, _)
ReservePairs(regions, types, n, defaults, st, unique) ==
    IF n > Len(regions) * Len(types) \/ st.error # None THEN st
    ELSE ReservePairs(regions, types, n + 1, defaults,
                      ReservePair(regions[((n - 1) \div Len(types)) + 1],
                                  types[((n - 1) % Len(types)) + 1],
                                  defaults, st, unique),
                      unique)

_build_reserves ==
    /\ At("_build_reserves")
    /\ \E transmission_regions \in UniqueLists(hierarchy) :
         LET defaults == defaults_json
             st == IF hierarchy = <<>> \/ defaults.default_reserve_types = <<>>
                   THEN [system |-> system, error |-> None]
                   ELSE ReservePairs(transmission_regions,
                                     defaults.default_reserve_types, 1, defaults,
                                     [system |-> system, error |-> None],
                                     unique_names)
         IN  /\ df' = hierarchy
             /\ system' = st.system
             /\ IF st.error # None THEN Raise(st.error)
                ELSE Return /\ UNCHANGED error
    /\ UNCHANGED <<Inputs, Expansion, Session, hierarchy, load_data, region_cache,
                   generator_cache, hourly_time_index>>

----------------------------------------------------------------------------
(* _build_emissions                                                        *)

CO2 == <<"c", "o", "2">>
COMBUSTION == <<"c", "o", "m", "b", "u", "s", "t", "i", "o", "n">>
PRECOMBUSTION == <<"p", "r", "e", "c", "o", "m", "b", "u", "s", "t", "i", "o", "n">>

\* The members of the EmissionType enumeration the inputs can name.
EmissionTypes == {Upper(CO2), <<"N", "O", "X">>}

ERow(technology, i, region, emission_type, emission_rate, emission_source) ==
    [technology |-> technology, tech |-> None, i |-> i, region |-> region,
     r |-> None, emission_type |-> emission_type, e |-> None,
     emission_rate |-> emission_rate, rate |-> None, value |-> None,
     emission_source |-> emission_source]

\* Rows of the emission-rate frame.
EmissionRows ==
    { ERow(W, None, P, CO2, <<4>>, None),
      ERow(P, None, W, CO2, <<4>>, COMBUSTION),
      ERow(None, P, G, <<"n", "o", "x">>, <<2>>, COMBUSTION),
      ERow(P, None, W, CO2, <<6>>, PRECOMBUSTION),
      ERow(P, None, W, CO2, <<-4>>, None),
      ERow(P, None, W, CO2, None, None) }

\* row.get("emission_rate") or row.get("rate") or row.get("value"): a rate of
\* 0 is falsy and gives way to the next column.
RateOf(row) ==
    LET given == SelectSeq(<<row.emission_rate, row.rate>>,
                           LAMBDA x : x # None /\ x # <<0>>)
    IN  IF given # <<>> THEN given[1] ELSE row.value

\* Every row counts as a combustion row.
SourceOf_Combustion(row) == COMBUSTION

\* row.get("emission_source", "combustion")
SourceOf(row) ==
    IF row.emission_source = None THEN COMBUSTION ELSE row.emission_source

\* The generator an emission row is attached to: 0 when the row is skipped.
EmissionTarget(row, gcache) ==
    LET tech == FirstTruthy(<<row.technology, row.tech, row.i>>)
        region == FirstTruthy(<<row.region, row.r>>)
        emission_type == FirstTruthy(<<row.emission_type, row.e>>)
    IN  IF ~Truthy(tech) \/ ~Truthy(region) \/ ~Truthy(emission_type)
           \/ RateOf(row) = None
        THEN 0
        ELSE IF SourceOf(row) # COMBUSTION THEN 0
        ELSE DictGet(gcache, region \o <<"_">> \o tech)

\* One row of the loop; st is [system, error].
EmissionRow(row, st, gcache) ==
    LET emission_type == Upper(FirstTruthy(<<row.emission_type, row.e>>))
        generator == EmissionTarget(row, gcache)
        emission == [owner |-> generator, emission_type |-> emission_type,
                     rate |-> RateOf(row)]
    IN  IF generator = 0 THEN st
        ELSE IF emission_type \notin EmissionTypes \/ ~NonNegative(RateOf(row))
        THEN [st EXCEPT !.error = ValidationError]
        ELSE [st EXCEPT !.system.emissions = Append(@, emission)]

RECURSIVE EmissionRows_(_, _, _, _)
EmissionRows_(rows, i, st, gcache) ==
    IF i > Len(rows) \/ st.error # None THEN st
    ELSE EmissionRows_(rows, i + 1, EmissionRow(rows[i], st, gcache), gcache)

_build_emissions ==
    /\ At("_build_emissions")
    /\ \E emit_data \in Reads("emission_rates",
                              Frames("emission_rates", EmissionRows)) :
         LET st == EmissionRows_(emit_data.rows, 1,
                                 [system |-> system, error |-> None],
                                 generator_cache)
         IN  /\ df' = emit_data.rows
             /\ system' = st.system
             /\ IF st.error # None THEN Raise(st.error)
                ELSE Return /\ UNCHANGED error
    /\ UNCHANGED <<Inputs, Expansion, Session, hierarchy, load_data, region_cache,
                   generator_cache, hourly_time_index>>

----------------------------------------------------------------------------
(* build_time_series and its three passes                                  *)

build_time_series ==
    /\ At("build_time_series")
    /\ Return
    /\ UNCHANGED <<Inputs, Expansion, Session, error, hierarchy, load_data, df, system,
                   region_cache, generator_cache, hourly_time_index>>

MAX_ACTIVE_POWER == "max_active_power"

\* SingleTimeSeries.from_array(data, name, initial_timestamp, resolution,
\* normalization) attached to the owner: the first hour of the time index,
\* a resolution of one hour.
TimeSeries(owner_type, owner, data, normalization, index) ==
    [owner_type |-> owner_type, owner |-> owner, name |-> MAX_ACTIVE_POWER,
     data |-> data, normalization |-> normalization,
     initial_timestamp |-> index[1], resolution |-> 1]

\* One demand of the loop of _attach_load_profiles.
LoadProfile(d, demand, cols, series, index) ==
    LET region_name == Replace(demand.name, LOAD, <<>>)
    IN  IF region_name \notin DOMAIN cols THEN series
        ELSE Append(series, TimeSeries("demand", d, cols[region_name], None, index))

RECURSIVE LoadProfiles_(_, _, _, _, _)
LoadProfiles_(demands, d, cols, series, index) ==
    IF d > Len(demands) THEN series
    ELSE LoadProfiles_(demands, d + 1, cols,
                       LoadProfile(d, demands[d], cols, series, index), index)

\* The pass starts from an empty store of series.
AttachLoadProfiles_Overwriting(series) ==
    IF ~load_data.present \/ IsEmptyFrame(load_data.rows)
       \/ system.demands = <<>>
    THEN series
    ELSE LoadProfiles_(system.demands, 1, load_data.rows, <<>>,
                       hourly_time_index)

\* The series of the system after the pass, given the series before it.
AttachLoadProfiles(series) ==
    IF ~load_data.present \/ IsEmptyFrame(load_data.rows)
       \/ system.demands = <<>>
    THEN series
    ELSE LoadProfiles_(system.demands, 1, load_data.rows, series,
                       hourly_time_index)

_attach_load_profiles ==
    /\ At("_attach_load_profiles")
    /\ system' = [system EXCEPT !.time_series = AttachLoadProfiles(@)]
    /\ df' = <<>>
    /\ Return
    /\ UNCHANGED <<Inputs, Expansion, Session, error, hierarchy, load_data, region_cache,
                   generator_cache, hourly_time_index>>

\* A capacity-factor frame: its columns, in order, each with its profile.
CFColumns ==
    { [name |-> W \o <<"|">> \o P, data |-> <<1, 0>>],
      [name |-> G \o <<"|">> \o Q, data |-> <<1, 1>>],
      [name |-> <<"d", "a", "t", "e", "t", "i", "m", "e">>, data |-> <<0, 1>>] }

CFFrames ==
    {f \in Frames("renewable_cf", CFColumns) :
        \A i, j \in 1..Len(f) : i # j => f[i].name # f[j].name}

\* The generators of the cache a column "<tech>|<region>" matches, in the
\* order of the cache.
MatchingGenerators(gcache, generators, regions, tech, region_name) ==
    SelectSeq([i \in 1..Len(gcache) |-> gcache[i].v],
              LAMBDA g : /\ generators[g].technology = tech
                         /\ regions[generators[g].region].name = region_name)

\* NormalizationByValue(value=capacity) whatever the capacity.
Normalization_Always(capacity) == capacity

\* NormalizationByValue(value=capacity) if capacity > 0 else None
Normalization(capacity) == IF capacity[1] > 0 THEN capacity ELSE None

RECURSIVE RenewableGenerators(_, _, _, _, _, _)
RenewableGenerators(matching, m, generators, data, series, index) ==
    IF m > Len(matching) THEN series
    ELSE RenewableGenerators(
             matching, m + 1, generators, data,
             Append(series,
                    TimeSeries("generator", matching[m], data,
                               Normalization(generators[matching[m]].capacity),
                               index)),
             index)

\* One column of the loop of _attach_renewable_profiles.
RenewableColumn(col, gcache, sys, series, index) ==
    LET parts == Split(col.name, <<"|">>)
    IN  IF Len(parts) # 2 THEN series
        ELSE RenewableGenerators(
                 MatchingGenerators(gcache, sys.generators, sys.regions,
                                    parts[1], parts[2]),
                 1, sys.generators, col.data, series, index)

RECURSIVE RenewableColumns(_, _, _, _, _, _)
RenewableColumns(cols, c, gcache, sys, series, index) ==
    IF c > Len(cols) THEN series
    ELSE RenewableColumns(cols, c + 1, gcache, sys,
                          RenewableColumn(cols[c], gcache, sys, series, index),
                          index)

\* The series of the system after the pass over the capacity-factor frame,
\* given the series before it.
AttachRenewableProfiles(cf_df, series) ==
    RenewableColumns(cf_df, 1, generator_cache, system, series,
                     hourly_time_index)

_attach_renewable_profiles ==
    /\ At("_attach_renewable_profiles")
    /\ \E renewable_cf_data \in Reads("renewable_cf", CFFrames) :
         /\ df' = renewable_cf_data.rows
         /\ system' =
              [system EXCEPT
                  !.time_series =
                      AttachRenewableProfiles(renewable_cf_data.rows, @)]
    /\ Return
    /\ UNCHANGED <<Inputs, Expansion, Session, error, hierarchy, load_data, region_cache,
                   generator_cache, hourly_time_index>>

\* A placeholder: it logs that reserve profiles are not implemented.
AttachReserveProfiles(series) == series

_attach_reserve_profiles ==
    /\ At("_attach_reserve_profiles")
    /\ system' = [system EXCEPT !.time_series = AttachReserveProfiles(@)]
    /\ df' = <<>>
    /\ Return
    /\ UNCHANGED <<Inputs, Expansion, Session, error, hierarchy, load_data, region_cache,
                   generator_cache, hourly_time_index>>

----------------------------------------------------------------------------
(* post_process_system                                                     *)

post_process_system ==
    /\ At("post_process_system")
    /\ system' = [system EXCEPT
                     !.data_format_version = <<"ReEDS v1.0">>,
                     !.description = <<config.solve_years, config.weather_years>>]
    /\ Return
    /\ UNCHANGED <<Inputs, Expansion, Session, error, hierarchy, load_data, df, region_cache,
                   generator_cache, hourly_time_index>>

----------------------------------------------------------------------------
(* The time-series expansion routines of the parser.  A routine is called  *)
(* on a parser whose build has not started; the call is                    *)
(* parser._expand_...(argument).                                           *)

\* defaults["month_days"], M1..M12
month_days == <<31, 28, 31, 30, 31, 30, 31, 31, 30, 31, 30, 31>>

\* defaults["month_hours"], M1..M12
month_hours == <<744, 672, 744, 720, 744, 720, 744, 744, 720, 744, 720, 744>>

Raised == [raised |-> TRUE, data |-> <<>>]
Returned(data) == [raised |-> FALSE, data |-> data]

\* [value] * n
Repeat(value, n) == [i \in 1..n |-> value]

\* Each of xs[i..] repeated counts[i] times, in order.
RECURSIVE Replicate(_, _, _)
Replicate(xs, counts, i) ==
    IF i > Len(xs) THEN <<>>
    ELSE Repeat(xs[i], counts[i]) \o Replicate(xs, counts, i + 1)

\* The months left are dropped or the months missing left out.
_expand_monthly_to_daily_Truncating(monthly_values) ==
    Returned(Replicate(SubSeq(monthly_values, 1,
                              IF Len(monthly_values) < 12
                              THEN Len(monthly_values) ELSE 12),
                       month_days, 1))

_expand_monthly_to_daily(monthly_values) ==
    IF Len(monthly_values) # 12 THEN Raised
    ELSE Returned(Replicate(monthly_values, month_days, 1))

_expand_daily_to_hourly(daily_values) ==
    IF Len(daily_values) # 365 THEN Raised
    ELSE Returned([h \in 1..(365 * 24) |-> daily_values[((h - 1) \div 24) + 1]])

\* Every month is given a twelfth of the year.
_expand_monthly_to_hourly_EqualMonths(monthly_values) ==
    IF Len(monthly_values) # 12 THEN Raised
    ELSE Returned(Replicate(monthly_values, [m \in 1..12 |-> 730], 1))

_expand_monthly_to_hourly(monthly_values) ==
    IF Len(monthly_values) # 12 THEN Raised
    ELSE Returned(Replicate(monthly_values, month_hours, 1))

\* The arguments of the model: 0..13 and 364..366 values, all equal but for
\* one marked position, or each value its own position.
ExpansionInputs ==
    LET lengths == {0, 11, 12, 13, 364, 365, 366}
        marks == {1, 2, 11, 12, 13, 59, 60, 365}
    IN  {[i \in 1..n |-> i] : n \in lengths}
        \cup UNION {{[i \in 1..n |-> IF i = k THEN 7 ELSE b] :
                        k \in {m \in marks : m <= n}} :
                    n \in lengths, b \in {0, 3}}

\* The state of the parser, which an expansion routine leaves as it is.
Build ==
    <<Inputs, Session, ip, status, error, trace, hierarchy, load_data, df,
      system, region_cache, generator_cache, hourly_time_index>>

\* ReEDSParser(config, data_store, skip_validation=True), about to be handed
\* the argument of an expansion routine.
InitExpansion ==
    /\ InitWith({c \in Configs : c.solve_years = <<2030>>}, {TRUE},
                {{"hierarchy", "modeledyears"}}, {[hierarchy |-> 1]},
                {HierarchyRows}, {FALSE})
    /\ routine = ""
    /\ argument \in ExpansionInputs
    /\ result = NoResult

expand_monthly_to_daily ==
    /\ routine = ""
    /\ routine' = "_expand_monthly_to_daily"
    /\ result' = _expand_monthly_to_daily(argument)
    /\ UNCHANGED <<Build, argument>>

expand_daily_to_hourly ==
    /\ routine = ""
    /\ routine' = "_expand_daily_to_hourly"
    /\ result' = _expand_daily_to_hourly(argument)
    /\ UNCHANGED <<Build, argument>>

expand_monthly_to_hourly ==
    /\ routine = ""
    /\ routine' = "_expand_monthly_to_hourly"
    /\ result' = _expand_monthly_to_hourly(argument)
    /\ UNCHANGED <<Build, argument>>

NextExpansion ==
    \/ expand_monthly_to_daily
    \/ expand_daily_to_hourly
    \/ expand_monthly_to_hourly

SpecExpansion == InitExpansion /\ [][NextExpansion]_vars

----------------------------------------------------------------------------

Next ==
    \/ validate_inputs
    \/ build_system_components
    \/ _build_regions
    \/ _build_generators
    \/ _build_transmission
    \/ _build_loads
    \/ _build_reserves
    \/ _build_emissions
    \/ build_time_series
    \/ _attach_load_profiles
    \/ _attach_renewable_profiles
    \/ _attach_reserve_profiles
    \/ post_process_system

Spec == Init /\ [][Next]_vars

----------------------------------------------------------------------------
(* Builds on further data folders: a hierarchy with a region whose name    *)
(* ends in "_load", capacity data together with a defaults.json, and load  *)
(* data together with capacity factors.                                    *)

SuffixRows ==
    { HRow(P, None, W, <<"C", "A">>),
      HRow(Q, None, W, <<"W", "A">>),
      HRow(P \o LOAD, None, W, <<"O", "R">>) }

RebuildFolders ==
    { [hierarchy |-> 1, online_capacity |-> 2, defaults |-> 1],
      [hierarchy |-> 2, transmission_capacity |-> 1],
      [hierarchy |-> 1, online_capacity |-> 1, biofuel_price |-> 1],
      [hierarchy |-> 1, online_capacity |-> 1, fuel_tech_map |-> 1,
       biofuel_price |-> 1],
      [hierarchy |-> 1, online_capacity |-> 1, fuel_tech_map |-> 1,
       fuel_price |-> 1, biofuel_price |-> 1],
      [hierarchy |-> 1, online_capacity |-> 1, heat_rate |-> 1,
       cost_vom |-> 1, forced_outages |-> 1, planned_outages |-> 1,
       maxage |-> 1],
      [hierarchy |-> 2, online_capacity |-> 1, load_data |-> 1,
       renewable_cf |-> 1] }

InitRebuild ==
    /\ InitWith({c \in Configs : c.solve_years = <<2030>>}, BOOLEAN,
                {{"hierarchy", "modeledyears"}}, RebuildFolders,
                {SuffixRows}, {FALSE})
    /\ routine = ""
    /\ argument = <<>>
    /\ result = NoResult

\* The builds one parser is asked for.
MaxBuilds == 2

\* parser.build_system() once more, after a build that returned or raised:
\* the build starts on a new System; the fields of the parser (the caches,
\* the time index) are as the earlier build left them.
build_system ==
    /\ status \in {"done", "failed"}
    /\ builds < MaxBuilds
    /\ builds' = builds + 1
    /\ ip' = 1
    /\ status' = "running"
    /\ error' = None
    /\ trace' = <<>>
    /\ hierarchy' = <<>>
    /\ load_data' = NoFrame
    /\ df' = <<>>
    /\ system' = EmptySystem
    /\ UNCHANGED <<Inputs, Expansion, folder_path, region_cache, generator_cache,
                   hourly_time_index>>

NextRebuild ==
    \/ Next
    \/ build_system

SpecRebuild == InitRebuild /\ [][NextRebuild]_vars

----------------------------------------------------------------------------
(* The upgrader: the upgrade step move_hmap_file and the version detector, *)
(* called on a run folder.                                                 *)

\* The calls of the model on one folder.
MaxCalls == 3

\* meta.csv as csv.reader reads it: a header and a row of five fields, and
\* malformed files: empty, a header only, a second row of four or of six
\* fields, a blank second line.
MetaFiles ==
    LET header == <<"computer", "repo", "branch", "commit", "description">>
    IN  { NoFile,
          File(<<>>),
          File(<<header>>),
          File(<<header, <<"pc", "ReEDS", "main", "abc123", "">>>>),
          File(<<header, <<"pc", "ReEDS", "main", "abc123">>>>),
          File(<<header, <<"pc", "ReEDS", "main", "abc123", "", "x">>>>),
          File(<<header, <<>>>>) }

\* The run folders: a file at the new location needs the directory rep.
RunFolders ==
    { Folder(rep, old_location, new_location, meta_csv) :
        rep \in BOOLEAN, old_location \in {None, <<1>>},
        new_location \in {None, <<2>>}, meta_csv \in MetaFiles }
    \ { Folder(FALSE, old_location, <<2>>, meta_csv) :
          old_location \in {None, <<1>>}, meta_csv \in MetaFiles }

RaisedWith(exception) == [raised |-> TRUE, data |-> exception]

\* old_location.rename(new_location): the operating system refuses when the
\* directory of the new location does not exist.
Rename(folder) ==
    IF ~folder.rep
    THEN [folder |-> folder, result |-> RaisedWith("FileNotFoundError")]
    ELSE [folder |-> [folder EXCEPT !.new_location = folder.old_location,
                                    !.old_location = None],
          result |-> Returned(None)]

\* The step without the test of the new location.
MoveHmapFile_Unchecked(folder) ==
    IF folder.old_location = None
    THEN [folder |-> folder, result |-> RaisedWith("FileNotFoundError")]
    ELSE Rename(folder)

\* move_hmap_file(folder): the folder it leaves and what it returns or raises.
MoveHmapFile(folder) ==
    IF folder.new_location # None
    THEN [folder |-> folder, result |-> Returned(None)]
    ELSE IF folder.old_location = None
    THEN [folder |-> folder, result |-> RaisedWith("FileNotFoundError")]
    ELSE Rename(folder)

\* A value a Python call returns: its type and the value.
Value(type, value) == [type |-> type, value |-> value]

\* ReEDSVersionDetector.detect_version(folder_path)
DetectVersion(folder) ==
    LET rows == folder.meta_csv.rows
    IN  IF ~folder.meta_csv.exists
        THEN Returned(Value("FileNotFoundError", <<"meta.csv">>))
        ELSE IF Len(rows) < 2 THEN RaisedWith("StopIteration")
        ELSE IF Len(rows[2]) # 5 THEN RaisedWith("AssertionError")
        ELSE Returned(Value("str", rows[2][4]))

\* The state of the parser and of the expansion routines, which the upgrader
\* leaves as it is.
Parser ==
    <<Inputs, builds, ip, status, error, hierarchy, load_data, df, system,
      region_cache, generator_cache, hourly_time_index>>

InitUpgrade ==
    /\ InitWith({c \in Configs : c.solve_years = <<2030>>}, {FALSE},
                {{"hierarchy", "modeledyears"}}, {[hierarchy |-> 1]},
                {HierarchyRows}, {FALSE})
    /\ routine = ""
    /\ argument = <<>>
    /\ result = NoResult

\* The folder the upgrader is created for.
ReEDSUpgrader ==
    /\ routine = ""
    /\ folder_path = NoFolder
    /\ folder_path' \in RunFolders
    /\ routine' = "ReEDSUpgrader"
    /\ UNCHANGED <<Parser, trace, argument, result>>

move_hmap_file ==
    /\ routine # ""
    /\ Len(trace) < MaxCalls
    /\ routine' = "move_hmap_file"
    /\ argument' = folder_path
    /\ folder_path' = MoveHmapFile(folder_path).folder
    /\ result' = MoveHmapFile(folder_path).result
    /\ trace' = Append(trace, "move_hmap_file")
    /\ UNCHANGED Parser

detect_version ==
    /\ routine # ""
    /\ Len(trace) < MaxCalls
    /\ routine' = "detect_version"
    /\ argument' = folder_path
    /\ result' = DetectVersion(folder_path)
    /\ trace' = Append(trace, "detect_version")
    /\ UNCHANGED <<Parser, folder_path>>

NextUpgrade ==
    \/ ReEDSUpgrader
    \/ move_hmap_file
    \/ detect_version

SpecUpgrade == InitUpgrade /\ [][NextUpgrade]_vars

----------------------------------------------------------------------------
(* Properties.                                                             *)

IsPrefix(s, t) == Len(s) <= Len(t) /\ s = SubSeq(t, 1, Len(s))

Ran(method) == method \in Range(trace)

\* The method that ran last is `method` (it returned, or it raised).
After(method) == trace # <<>> /\ trace[Len(trace)] = method

Calls(methods) == SelectSeq(trace, LAMBDA m : m \in methods)

\* C1: in one build the four stages are entered in the order validate_inputs,
\* build_system_components, build_time_series, post_process_system, none
\* twice and none skipped; a stage is entered only when the methods of the
\* stage before it have all run; a finished build has entered all four.
C1_StagesInOrder ==
    LET stages == <<"validate_inputs", "build_system_components",
                    "build_time_series", "post_process_system">>
    IN  /\ IsPrefix(Calls(Range(stages)), stages)
        /\ Ran("build_system_components") => trace[1] = "validate_inputs"
        /\ Ran("build_time_series") =>
              \A b \in {"_build_regions", "_build_generators",
                        "_build_transmission", "_build_loads",
                        "_build_reserves", "_build_emissions"} : Ran(b)
        /\ Ran("post_process_system") =>
              \A a \in {"_attach_load_profiles", "_attach_renewable_profiles",
                        "_attach_reserve_profiles"} : Ran(a)
        /\ status = "done" => Calls(Range(stages)) = stages

\* A build that ran to its end and built a region.
C1_Witness == status = "done" /\ system.regions # <<>>

\* C2: the six builders run once each in the order regions, generators,
\* transmission, loads, reserves, emissions; when a later builder starts the
\* region cache holds every region of the hierarchy, and when the emission
\* builder starts the generator builder has run.
C2_BuildersInOrder ==
    LET builders == <<"_build_regions", "_build_generators",
                      "_build_transmission", "_build_loads",
                      "_build_reserves", "_build_emissions">>
        later == {builders[i] : i \in 2..6}
    IN  /\ IsPrefix(Calls(Range(builders)), builders)
        /\ Ran("build_time_series") => Calls(Range(builders)) = builders
        /\ \A b \in later :
              At(b) =>
                /\ Ran("_build_regions")
                /\ \A i \in 1..Len(hierarchy) :
                      LET name == IF hierarchy[i].region_id # <<>>
                                  THEN hierarchy[i].region_id
                                  ELSE hierarchy[i].r
                      IN  name # <<>> =>
                            \E c \in 1..Len(region_cache) :
                               /\ region_cache[c].k = name
                               /\ system.regions[region_cache[c].v].name = name
        /\ At("_build_emissions") => Ran("_build_generators")

\* The emission builder about to start, with cached generators.
C2_Witness == At("_build_emissions") /\ generator_cache # <<>>

\* C3: a configured solve year that is not in modeledyears.csv makes
\* validate_inputs raise "Solve year <year> not found in modeledyears.csv",
\* so that no builder runs.
C3_SolveYearRejected ==
    \A i \in 1..Len(config.solve_years) :
       ( /\ config.solve_years[i] \notin modeledyears_csv
         /\ {"hierarchy", "modeledyears"} \subseteq data_store
         /\ Ran("validate_inputs") )
       => /\ status = "failed"
          /\ trace = <<"validate_inputs">>
          /\ error = <<"Solve year ", YearStr(config.solve_years[i]),
                       " not found in modeledyears.csv">>

\* C4: a configured weather year that is not in hmap_allyrs.csv makes
\* validate_inputs raise "Weather year <year> not found in hmap_allyrs.csv",
\* so that no builder runs.
C4_WeatherYearRejected ==
    \A i \in 1..Len(config.weather_years) :
       ( /\ config.weather_years[i] \notin hmap_allyrs_csv
         /\ {"hierarchy", "modeledyears"} \subseteq data_store
         /\ Ran("validate_inputs") )
       => /\ status = "failed"
          /\ trace = <<"validate_inputs">>
          /\ error = <<"Weather year ", YearStr(config.weather_years[i]),
                       " not found in hmap_allyrs.csv">>

\* C5: when 'hierarchy' or 'modeledyears' is not in the data store,
\* validate_inputs raises an error that names a missing dataset and the build
\* ends there with no component created; when both are in the store and the
\* configured years are valid, validate_inputs returns without error.
C5_RequiredFiles ==
    Ran("validate_inputs") =>
       /\ ~({"hierarchy", "modeledyears"} \subseteq data_store) =>
             /\ status = "failed"
             /\ trace = <<"validate_inputs">>
             /\ Len(error) = 3
             /\ error[1] = "Required file '"
             /\ error[2] \in {"hierarchy", "modeledyears"} \ data_store
             /\ error[3] = "' not found in DataStore"
             /\ system = EmptySystem
             /\ region_cache = <<>> /\ generator_cache = <<>>
       /\ ( /\ {"hierarchy", "modeledyears"} \subseteq data_store
            /\ config.solve_years[1] \in modeledyears_csv
            /\ config.weather_years[1] \in hmap_allyrs_csv )
          => (ip > 1 /\ (status = "failed" => Len(trace) > 1))

\* validate_inputs raised because modeledyears is not in the store.
C5_Witness ==
    /\ status = "failed"
    /\ data_store = {"hierarchy"}
    /\ error = <<"Required file '", "modeledyears", "' not found in DataStore">>

\* The region cache has the key.
Cached(name) == \E c \in 1..Len(region_cache) : region_cache[c].k = name

\* The rows of the capacity frame the generator loop does not skip.
GeneratorSources ==
    SelectSeq(df, LAMBDA row : /\ row.technology # <<>>
                               /\ row.region # <<>>
                               /\ Cached(row.region))

\* C6: every Generator of the system refers to a Region of the system; after
\* the generator builder each Generator comes from a capacity row whose
\* region is a key of the region cache and refers to the Region of that
\* name, so a row of an unknown region yields no Generator, and such a row
\* does not make the builder raise.
C6_GeneratorsReferenceBuiltRegions ==
    /\ \A g \in 1..Len(system.generators) :
          system.generators[g].region \in 1..Len(system.regions)
    /\ After("_build_generators") =>
          /\ Len(system.generators) <= Len(GeneratorSources)
          /\ \A g \in 1..Len(system.generators) :
                LET row == GeneratorSources[g]
                    generator == system.generators[g]
                IN  /\ system.regions[generator.region].name = row.region
                    /\ generator.technology = row.technology
                    /\ \E c \in 1..Len(region_cache) :
                          /\ region_cache[c].k = row.region
                          /\ region_cache[c].v = generator.region
          /\ status = "running" =>
                Len(system.generators) = Len(GeneratorSources)
          /\ (status = "failed" /\ error # TypeError) =>
                LET row == GeneratorSources[Len(system.generators) + 1]
                IN  \/ row.capacity_mw # <<>> /\ row.capacity_mw[1] < 0
                    \/ \E g \in 1..Len(system.generators) :
                          system.generators[g].name =
                              GenName(row.technology, row.vintage, row.region)

\* The generator builder returned, having built a generator and skipped a
\* row of a region that is not in the cache.
C6_Witness ==
    /\ After("_build_generators") /\ status = "running"
    /\ system.generators # <<>>
    /\ \E i \in 1..Len(df) :
          df[i].technology # <<>> /\ df[i].region # <<>> /\ ~Cached(df[i].region)

\* The rows of the transmission frame the line loop does not skip.
LineSources ==
    SelectSeq(df, LAMBDA row : /\ FromName(row) # <<>> /\ ToName(row) # <<>>
                               /\ Cached(FromName(row))
                               /\ Cached(ToName(row)))

\* C7: every Interface's from_region and to_region are Regions of the system
\* and every TransmissionLine refers to an Interface of the system; after the
\* transmission builder each line comes from a row whose two region names are
\* given and are keys of the region cache, its interface joining the Regions
\* of those names, so a row with a missing or unknown region yields neither
\* an Interface nor a TransmissionLine.
C7_InterfacesReferenceBuiltRegions ==
    /\ \A k \in 1..Len(system.interfaces) :
          /\ system.interfaces[k].from_region \in 1..Len(system.regions)
          /\ system.interfaces[k].to_region \in 1..Len(system.regions)
    /\ \A l \in 1..Len(system.lines) :
          system.lines[l].interface \in 1..Len(system.interfaces)
    /\ After("_build_transmission") =>
          /\ Len(system.lines) <= Len(LineSources)
          /\ status = "running" => Len(system.lines) = Len(LineSources)
          /\ \A k \in 1..Len(system.interfaces) :
                \E i \in 1..Len(LineSources) :
                   LET row == LineSources[i]
                       interface == system.interfaces[k]
                   IN  /\ system.regions[interface.from_region].name = FromName(row)
                       /\ system.regions[interface.to_region].name = ToName(row)
                       /\ interface.name =
                              FromName(row) \o <<"|", "|">> \o ToName(row)
          /\ \A l \in 1..Len(system.lines) :
                system.lines[l].name =
                    FromName(LineSources[l]) \o <<"|", "|">>
                    \o ToName(LineSources[l]) \o <<"_">>
                    \o (IF LineSources[l].trtype = <<>> THEN AC
                        ELSE LineSources[l].trtype)

\* The transmission builder returned, having built a line and skipped a row
\* whose from-region is unknown or whose to-region is not given.
C7_Witness ==
    /\ After("_build_transmission") /\ status = "running"
    /\ system.lines # <<>>
    /\ Len(LineSources) < Len(df)

\* C8: after the transmission builder the Interfaces are as many as the
\* distinct ordered (from, to) pairs of the rows that were not skipped; the
\* line of a row refers to an Interface joining the row's from-region to its
\* to-region, rows of one pair sharing one Interface and rows of different
\* pairs, (A,B) and (B,A) among them, referring to different Interfaces.
C8_InterfacePerOrderedPair ==
    (After("_build_transmission") /\ status = "running") =>
       LET pair(l) == <<FromName(LineSources[l]), ToName(LineSources[l])>>
           interface(l) == system.interfaces[system.lines[l].interface]
       IN  /\ Len(system.interfaces) =
                 Cardinality({pair(l) : l \in 1..Len(LineSources)})
           /\ \A l \in 1..Len(system.lines) :
                 /\ system.regions[interface(l).from_region].name = pair(l)[1]
                 /\ system.regions[interface(l).to_region].name = pair(l)[2]
                 /\ interface(l).name = pair(l)[1] \o <<"|", "|">> \o pair(l)[2]
           /\ \A l, m \in 1..Len(system.lines) :
                 (pair(l) = pair(m)) <=>
                    (system.lines[l].interface = system.lines[m].interface)

\* C9: in every state no stored component has a negative magnitude: the
\* capacity of a Generator, the max_active_power of a Region or a Demand, the
\* two ratings of a TransmissionLine and the rate of an Emission are >= 0.
C9_NoNegativeMagnitude ==
    /\ \A g \in 1..Len(system.generators) :
          system.generators[g].capacity[1] >= 0
    /\ \A r \in 1..Len(system.regions) :
          system.regions[r].max_active_power = <<>>
          \/ system.regions[r].max_active_power[1] >= 0
    /\ \A d \in 1..Len(system.demands) :
          system.demands[d].max_active_power[1] >= 0
    /\ \A l \in 1..Len(system.lines) :
          /\ system.lines[l].max_active_power.from_to[1] >= 0
          /\ system.lines[l].max_active_power.to_from[1] >= 0
    /\ \A e \in 1..Len(system.emissions) :
          system.emissions[e].rate[1] >= 0

\* C9, amended: in every state of a build whose parser validates
\* (skip_validation is false) no stored component has a negative magnitude,
\* and a capacity row with a negative capacity that the generator loop
\* reaches makes the builder raise; with skip_validation set, the ratings of
\* the lines and the rates of the emissions are still >= 0.
C9_NoNegativeMagnitudeWhenValidated ==
    /\ ~skip_validation => C9_NoNegativeMagnitude
    /\ \A l \in 1..Len(system.lines) :
          /\ system.lines[l].max_active_power.from_to[1] >= 0
          /\ system.lines[l].max_active_power.to_from[1] >= 0
    /\ \A e \in 1..Len(system.emissions) :
          system.emissions[e].rate[1] >= 0
    /\ (~skip_validation /\ After("_build_generators")) =>
          ( (\E i \in 1..Len(GeneratorSources) :
                /\ GeneratorSources[i].capacity_mw # <<>>
                /\ GeneratorSources[i].capacity_mw[1] < 0)
            => status = "failed" )

\* A validating parser whose generator builder raised on a negative capacity
\* after it had stored a generator.
C9_Witness ==
    /\ ~skip_validation
    /\ After("_build_generators")
    /\ status = "failed" /\ error = <<"ValidationError">>
    /\ system.generators # <<>>

MetadataColumns ==
    { <<"d", "a", "t", "e", "t", "i", "m", "e">>,
      <<"s", "o", "l", "v", "e", "_", "y", "e", "a", "r">> }

\* The columns of the load dataset, metadata columns excluded.
LoadColumns ==
    IF load_data.present THEN DOMAIN load_data.rows \ MetadataColumns ELSE {}

\* load.name.replace("_load", "") of every Demand of the system.
LoadRegionNames ==
    { Replace(system.demands[d].name, <<"_", "l", "o", "a", "d">>, <<>>) :
        d \in 1..Len(system.demands) }

GeneratorSeries ==
    SelectSeq(system.time_series, LAMBDA ts : ts.owner_type = "generator")

\* C12: every 'max_active_power' series the renewable-profile pass attached
\* to a Generator carries the generator's capacity as its normalization
\* value when the capacity is > 0, and no normalization when it is 0.
C12_NormalizedByCapacity ==
    \A t \in 1..Len(GeneratorSeries) :
       LET ts == GeneratorSeries[t]
           capacity == system.generators[ts.owner].capacity
       IN  /\ ts.name = "max_active_power"
           /\ capacity[1] > 0 => ts.normalization = capacity
           /\ capacity[1] = 0 => ts.normalization = <<>>

\* A generator of capacity 0 has its series attached, not normalized.
C12_Witness ==
    /\ After("_attach_renewable_profiles")
    /\ \E t \in 1..Len(GeneratorSeries) :
          /\ system.generators[GeneratorSeries[t].owner].capacity = <<0>>
          /\ GeneratorSeries[t].normalization = <<>>

\* The column "<technology>|<region>" of a generator.
ColumnOf(generator) ==
    generator.technology \o <<"|">> \o system.regions[generator.region].name

C14_HourlySampleCount ==
    \A t \in 1..Len(system.time_series) :
       /\ hourly_time_index # <<>>
       /\ Len(system.time_series[t].data) =
             (IF hourly_time_index[1] % 4 = 0 THEN 8784 ELSE 8760)
       /\ Len(system.time_series[t].data) = hourly_time_index[2]

\* The distinct transmission-region values of the hierarchy data.
TransmissionRegions ==
    {hierarchy[i].transmission_region : i \in 1..Len(hierarchy)}

\* C15: the reserve builder creates one Reserve named
\* '<transmission_region>_<reserve_type>' for each pair of a distinct
\* transmission-region value of the hierarchy and a configured reserve type,
\* and no other; a type that has no entry in the duration, time-frame or VoRS
\* table gets None for the field and the builder does not raise; with no
\* reserve type configured nothing is created.
C15_ReservePerRegionAndType ==
    After("_build_reserves") =>
       LET types == defaults_json.default_reserve_types
           field(table, type) ==
               IF \E e \in 1..Len(table) : table[e].k = type
               THEN table[CHOOSE e \in 1..Len(table) : table[e].k = type].v
               ELSE <<>>
       IN  /\ status = "running"
           /\ Len(system.reserves) =
                 Cardinality(TransmissionRegions) * Len(types)
           /\ \A tr \in TransmissionRegions : \A k \in 1..Len(types) :
                 Cardinality({r \in 1..Len(system.reserves) :
                                 system.reserves[r].name =
                                     tr \o <<"_">> \o types[k]}) = 1
           /\ \A r \in 1..Len(system.reserves) :
                 LET reserve == system.reserves[r]
                 IN  /\ \E tr \in TransmissionRegions, k \in 1..Len(types) :
                           /\ reserve.name = tr \o <<"_">> \o types[k]
                           /\ reserve.reserve_type = types[k]
                     /\ reserve.duration =
                           field(defaults_json.reserve_duration, reserve.reserve_type)
                     /\ reserve.time_frame =
                           field(defaults_json.reserve_time_frame, reserve.reserve_type)
                     /\ reserve.vors =
                           field(defaults_json.reserve_vors, reserve.reserve_type)
           /\ types = <<>> => system.reserves = <<>>

\* Two hierarchy rows of one transmission region and two reserve types, one of
\* them without a time frame: two Reserves.
C15_Witness ==
    /\ After("_build_reserves")
    /\ Len(hierarchy) = 2
    /\ hierarchy[1].transmission_region = hierarchy[2].transmission_region
    /\ Len(system.reserves) = 2
    /\ \E r \in 1..2 : system.reserves[r].time_frame = <<>>

\* C16: when a build that created a Reserve has run the passes of
\* build_time_series, some Reserve has a time series attached.
C16_ReserveSeriesAttached ==
    (Ran("_attach_reserve_profiles") /\ system.reserves # <<>>) =>
       \E t \in 1..Len(system.time_series) :
          /\ system.time_series[t].owner_type = "reserve"
          /\ system.time_series[t].owner \in 1..Len(system.reserves)

\* The rows of the emission frame whose emission source is 'combustion', a
\* frame without the column counting as 'combustion' throughout.
CombustionRows ==
    SelectSeq(df, LAMBDA row :
        \/ row.emission_source = <<>>
        \/ row.emission_source =
              <<"c", "o", "m", "b", "u", "s", "t", "i", "o", "n">>)

\* C17: every emission the emission builder attached comes from a row whose
\* emission source is 'combustion'; a row of another source attaches nothing
\* and does not make the builder raise.
C17_OnlyCombustionEmissions ==
    After("_build_emissions") =>
       /\ Len(system.emissions) <= Len(CombustionRows)
       /\ \A e \in 1..Len(system.emissions) :
             \E i \in 1..Len(CombustionRows) :
                LET row == CombustionRows[i]
                IN  /\ system.emissions[e].rate \in
                          {row.emission_rate, row.rate, row.value}
                    /\ system.emissions[e].emission_type \in
                          {Upper(row.emission_type), Upper(row.e)}
       /\ CombustionRows = <<>> =>
             (system.emissions = <<>> /\ status = "running")

\* The emission frame held a row of another source than 'combustion' that
\* matched a generator, and nothing was attached.
C17_Witness ==
    /\ After("_build_emissions") /\ status = "running"
    /\ system.emissions = <<>>
    /\ \E i \in 1..Len(df) :
          /\ df[i].emission_source = PRECOMBUSTION
          /\ DictHas(generator_cache,
                     df[i].region \o <<"_">> \o df[i].technology)

\* The combustion rows of the emission frame that give a technology, a
\* region, an emission type and a rate.
CompleteRows ==
    SelectSeq(CombustionRows, LAMBDA row :
        /\ FirstTruthy(<<row.technology, row.tech, row.i>>) # <<>>
        /\ FirstTruthy(<<row.region, row.r>>) # <<>>
        /\ FirstTruthy(<<row.emission_type, row.e>>) # <<>>
        /\ RateOf(row) # <<>>)

\* C18: after the emission builder, for every complete combustion row of the
\* emission frame a Generator of the row's technology and region, if one was
\* built, carries an emission of the row's upper-cased type and its rate.
C18_EmissionOnMatchingGenerator ==
    (After("_build_emissions") /\ status = "running") =>
       \A i \in 1..Len(CompleteRows) : \A g \in 1..Len(system.generators) :
          LET row == CompleteRows[i]
              generator == system.generators[g]
          IN  ( /\ generator.technology =
                      FirstTruthy(<<row.technology, row.tech, row.i>>)
                /\ system.regions[generator.region].name =
                      FirstTruthy(<<row.region, row.r>>) )
              => \E e \in 1..Len(system.emissions) :
                    /\ system.emissions[e].owner = g
                    /\ system.emissions[e].emission_type =
                          Upper(FirstTruthy(<<row.emission_type, row.e>>))
                    /\ system.emissions[e].rate = RateOf(row)

\* The hours of the months before month m.
RECURSIVE HoursBefore(_)
HoursBefore(m) == IF m = 1 THEN 0 ELSE HoursBefore(m - 1) + month_hours[m - 1]

\* C19: for a 12-element monthly input _expand_monthly_to_hourly returns
\* 8760 values, the value of month i filling the block of month i's
\* configured hour count that follows the blocks of the months before it.
C19_MonthlyToHourlyBlocks ==
    (routine = "_expand_monthly_to_hourly" /\ Len(argument) = 12) =>
       /\ ~result.raised
       /\ Len(result.data) = 8760
       /\ \A m \in 1..12 :
             \A h \in (HoursBefore(m) + 1)..(HoursBefore(m) + month_hours[m]) :
                result.data[h] = argument[m]

\* The monthly values 1..12 were expanded: February's block ends at hour
\* 1416 and March's starts at hour 1417.
C19_Witness ==
    /\ routine = "_expand_monthly_to_hourly"
    /\ argument = <<1, 2, 3, 4, 5, 6, 7, 8, 9, 10, 11, 12>>
    /\ ~result.raised
    /\ result.data[1416] = 2 /\ result.data[1417] = 3

\* C20: each of the three expansion routines raises, returning nothing, when
\* its input has not exactly the expected length (12 monthly or 365 daily
\* values), and returns exactly 365, 8760 and 8760 values when it has.
C20_ExpansionRejectsWrongLength ==
    LET expected == IF routine = "_expand_daily_to_hourly" THEN 365 ELSE 12
        produced == IF routine = "_expand_monthly_to_daily" THEN 365 ELSE 8760
    IN  routine # "" =>
           IF Len(argument) # expected
           THEN result.raised /\ result.data = <<>>
           ELSE ~result.raised /\ Len(result.data) = produced

\* _expand_monthly_to_daily was called with 11 values and raised.
C20_Witness ==
    /\ routine = "_expand_monthly_to_daily"
    /\ Len(argument) = 11
    /\ result.raised

\* The identifiers of the hierarchy frame the region loop does not skip.
Identifiers ==
    {RegionNameOf(df[i]) : i \in 1..Len(df)} \ {None}

\* The first row of the hierarchy frame that has the identifier.
FirstRowOf(identifier) ==
    df[CHOOSE i \in 1..Len(df) :
          /\ RegionNameOf(df[i]) = identifier
          /\ \A j \in 1..(i - 1) : RegionNameOf(df[j]) # identifier]

\* C22: the region builder returns with exactly one Region per distinct
\* identifier of the hierarchy frame: the Region has the attributes of the
\* first row that has the identifier, later rows of the identifier are
\* ignored, and the region cache maps the identifier to that Region.
C22_OneRegionPerIdentifier ==
    After("_build_regions") =>
       /\ status = "running"
       /\ Len(system.regions) = Cardinality(Identifiers)
       /\ \A identifier \in Identifiers :
             \E r \in 1..Len(system.regions) :
                /\ system.regions[r].name = identifier
                /\ system.regions[r].state =
                      FirstTruthy(<<FirstRowOf(identifier).state,
                                    FirstRowOf(identifier).st>>)
                /\ DictGet(region_cache, identifier) = r

\* The rows of the emission frame the emission loop attaches, in order.
AttachedRows ==
    SelectSeq(df, LAMBDA row : EmissionTarget(row, generator_cache) # 0)

\* C28: after the emission builder every emission is attached to a Generator
\* whose technology and region are the technology and the region of the
\* emission row it comes from.
C28_EmissionOwnerMatchesRow ==
    After("_build_emissions") =>
       \A e \in 1..Len(system.emissions) :
          LET row == AttachedRows[e]
              generator == system.generators[system.emissions[e].owner]
          IN  /\ generator.technology =
                    FirstTruthy(<<row.technology, row.tech, row.i>>)
              /\ system.regions[generator.region].name =
                    FirstTruthy(<<row.region, row.r>>)

RenewableTechs ==
    UNION {Range(defaults_json.tech_categories[c].v) :
              c \in {d \in 1..Len(defaults_json.tech_categories) :
                        defaults_json.tech_categories[d].k \in {SOLAR, WIND}}}

\* The number of generators expected of the capacity rows of the solve year:
\* the rows of excluded technologies dropped, one per technology and region
\* of the renewable rows, one per row of the others.
expected_generator_count ==
    LET rows == SelectSeq(df, LAMBDA row :
                    row.technology \notin Range(defaults_json.excluded_techs))
        df_renewable ==
            SelectSeq(rows, LAMBDA row : row.technology \in RenewableTechs)
        df_non_renewable ==
            SelectSeq(rows, LAMBDA row : row.technology \notin RenewableTechs)
    IN  Cardinality({<<df_renewable[i].technology, df_renewable[i].region>> :
                        i \in 1..Len(df_renewable)})
        + Len(df_non_renewable)

\* C21: when the generator builder has returned, the Generators are as many
\* as the distinct (technology, region) pairs of the solar and wind rows plus
\* the rows of the other technologies, among the capacity rows of the solve
\* year whose technology is not excluded; no Generator has an excluded
\* technology.
C21_GeneratorCount ==
    (After("_build_generators") /\ status = "running") =>
       /\ Len(system.generators) = expected_generator_count
       /\ \A g \in 1..Len(system.generators) :
             system.generators[g].technology
                 \notin Range(defaults_json.excluded_techs)

\* The optional datasets the generator builder joins to the capacity frame.
AuxiliaryDatasets ==
    {"fuel_tech_map", "fuel_price", "biofuel_price", "heat_rate", "cost_vom",
     "forced_outages", "planned_outages", "maxage"}

\* C24: whichever of its auxiliary datasets exist, the generator builder does
\* not raise over them: it returns, or it fails over a component (a negative
\* capacity, a name that is taken).
C24_AuxiliaryDatasetsOptional ==
    (After("_build_generators") /\ status = "failed") =>
       error \in {ValidationError, DuplicateName}

\* C29: for every Demand the region name the load-profile pass derives from
\* the Demand's name is the name of the Region the Demand refers to, and a
\* series attached to the Demand is the load column of that Region.
C29_DerivedRegionIsOwnRegion ==
    /\ \A d \in 1..Len(system.demands) :
          Replace(system.demands[d].name, LOAD, <<>>) =
              system.regions[system.demands[d].region].name
    /\ After("_attach_load_profiles") =>
          \A t \in 1..Len(system.time_series) :
             LET series == system.time_series[t]
             IN  series.owner_type = "demand" =>
                    series.data =
                       load_data.rows[system.regions[
                           system.demands[series.owner].region].name]

\* One pass, run on the components of the state and the capacity-factor
\* frame the renewable pass has read.
RunPass(pass, series) ==
    CASE pass = "_attach_load_profiles" -> AttachLoadProfiles(series)
      [] pass = "_attach_renewable_profiles" ->
             AttachRenewableProfiles(df, series)
      [] pass = "_attach_reserve_profiles" -> AttachReserveProfiles(series)

RECURSIVE RunPasses(_, _)
RunPasses(passes, series) ==
    IF passes = <<>> THEN series
    ELSE RunPasses(Tail(passes), RunPass(Head(passes), series))

\* The orders the three passes can run in.
PassOrders ==
    {order \in [1..3 -> Range(TimeSeriesPasses)] :
        Range(order) = Range(TimeSeriesPasses)}

\* C23: run on the built components in any order, the three passes attach
\* the series that the order load, renewable, reserve attaches: the same
\* owners, names, samples and normalizations.
C23_PassesCommute ==
    After("_attach_renewable_profiles") =>
       /\ Range(RunPasses(TimeSeriesPasses, <<>>)) =
             Range(AttachReserveProfiles(system.time_series))
       /\ \A order \in PassOrders :
             Range(RunPasses(order, <<>>)) =
                 Range(RunPasses(TimeSeriesPasses, <<>>))

\* The load pass has attached a series to a Demand and the renewable pass a
\* series to a Generator.
C23_Witness ==
    /\ After("_attach_renewable_profiles")
    /\ \E t \in 1..Len(system.time_series) :
          system.time_series[t].owner_type = "demand"
    /\ \E t \in 1..Len(system.time_series) :
          system.time_series[t].owner_type = "generator"

\* C25: in every build the region cache and the generator cache are empty
\* once build_system_components has set them up, whatever an earlier build
\* left in them; from then on a cache entry refers to a component of the
\* system under construction that has the entry's key as its name, and every
\* Line refers to an Interface of that system between Regions of that
\* system.
C25_CachesAreBuildScoped ==
    /\ After("build_system_components") =>
          region_cache = <<>> /\ generator_cache = <<>>
    /\ Ran("build_system_components") =>
          /\ \A c \in 1..Len(region_cache) :
                /\ region_cache[c].v \in 1..Len(system.regions)
                /\ system.regions[region_cache[c].v].name = region_cache[c].k
          /\ \A c \in 1..Len(generator_cache) :
                /\ generator_cache[c].v \in 1..Len(system.generators)
                /\ system.generators[generator_cache[c].v].name =
                      generator_cache[c].k
          /\ \A l \in 1..Len(system.lines) :
                /\ system.lines[l].interface \in 1..Len(system.interfaces)
                /\ system.interfaces[system.lines[l].interface].from_region
                      \in 1..Len(system.regions)
                /\ system.interfaces[system.lines[l].interface].to_region
                      \in 1..Len(system.regions)

\* A second build has set up its caches.
C25_Witness ==
    builds > 1 /\ After("build_system_components")

\* A step that is a call of move_hmap_file.
MoveStep == trace' = Append(trace, "move_hmap_file")

\* What holds of every call of move_hmap_file: when the file is at the new
\* location the call returns and changes nothing; when it is at neither
\* location the call raises FileNotFoundError and changes nothing.
MoveCases ==
    /\ (MoveStep /\ folder_path.new_location # None) =>
          folder_path' = folder_path /\ ~result'.raised
    /\ (MoveStep /\ folder_path.new_location = None
                 /\ folder_path.old_location = None) =>
          folder_path' = folder_path
          /\ result' = RaisedWith("FileNotFoundError")

\* C26 as stated: a second call of move_hmap_file leaves the folder as the
\* first call left it and raises nothing, and every call is as MoveCases
\* says.
C26_SecondMoveNeverRaises ==
    [][ /\ (MoveStep /\ routine = "move_hmap_file") =>
              folder_path' = folder_path /\ ~result'.raised
        /\ MoveCases ]_vars

\* C26, amended: a second call of move_hmap_file leaves the folder as the
\* first call left it, and raises nothing when the first call returned;
\* every call is as MoveCases says.
C26_SecondMoveAfterReturn ==
    [][ /\ (MoveStep /\ routine = "move_hmap_file") =>
              /\ folder_path' = folder_path
              /\ ~result.raised => ~result'.raised
        /\ MoveCases ]_vars

\* The second of two calls has returned, on the folder to whose new location
\* the first call moved the file.
C26_Witness ==
    /\ trace = <<"move_hmap_file", "move_hmap_file">>
    /\ ~result.raised
    /\ folder_path.new_location = <<1>>
    /\ folder_path.old_location = None

\* C27: detect_version raises, or it returns the fourth field of the second
\* row of meta.csv, a string.
C27_VersionOrError ==
    (routine = "detect_version" /\ ~result.raised) =>
       /\ result.data.type = "str"
       /\ argument.meta_csv.exists
       /\ result.data.value = argument.meta_csv.rows[2][4]

====
